---- MODULE Spec2Model ----
(***************************************************************************)
(* The network modules of networks.py (TextEncoder, AudioEncoder,          *)
(* DotProductAttention, AudioDecoder, PostNet) as state machines: one      *)
(* step per entry of a module's block list, in the order of its forward(). *)
(*                                                                         *)
(* A tensor (N, C, T) is carried as its batch size (cfg.N), its channel    *)
(* count (chan) and one quantised value per time frame (x), so that the    *)
(* time axis, which the convolutions and the upsampling act on, is         *)
(* computed, and the channel axis, which they only resize, is tracked.     *)
(* x2 is a second run of the same network on a second input (inp2), for    *)
(* the statements that compare two runs.  The attention module carries     *)
(* full (N, C, T) tensors.                                                 *)
(***************************************************************************)
EXTENDS Integers, Sequences, FiniteSets, TLC

VARIABLES net, cfg, pc, status, chan, x, x2, inp, inp2, ret, Q, K, V, A, R

\* The locals of DotProductAttention.forward.
attn == <<Q, K, V, A, R>>

vars == <<net, cfg, pc, status, chan, x, x2, inp, inp2, ret, attn>>

\* ---------------------------------------------------------------- bounds
\* Largest time length of an input.
MaxT == 3
\* Largest d_in and d_out given to a constructor.
MaxC == 2
\* Largest d_hidden given to a constructor.
MaxHidden == 3
\* Largest batch size.
MaxN == 1
\* Input tensors of the attention are drawn from patterns 0 .. MaxSeed.
MaxSeed == 2

\* Quantised activations: every frame value is kept in -1 .. 1.
Clip(v) == IF v > 1 THEN 1 ELSE IF v < -1 THEN -1 ELSE v

Relu(v) == IF v > 0 THEN v ELSE 0

\* torch.sigmoid on a quantised value: monotone, into (0, 1); the three
\* levels are carried as 0, 1, 2 (below, at, above one half).
Sigmoid(v) == Clip(v) + 1

Activation(fn, v) == IF fn = "relu" THEN Relu(v) ELSE v

RECURSIVE Pow3(_)
Pow3(i) == IF i = 0 THEN 1 ELSE 3 * Pow3(i - 1)

\* ---------------------------------------------------------------- layers
\* Zero padding: a frame outside the sequence reads as 0.
At(s, t) == IF t \in 1..Len(s) THEN s[t] ELSE 0

\* The weight of tap k (0-based) of the kernel of block b; gate selects the
\* gate half (H1) of a highway layer's doubled output channels.  The weights
\* are learned parameters: cfg.alt picks one of two sets.
Weight(b, k, gate) ==
    IF gate THEN (IF (k + (IF cfg.alt THEN b ELSE 0)) % 2 = 1 THEN -1 ELSE 1)
    ELSE 1

RECURSIVE TapSum(_, _, _, _, _, _, _)
\* Sum over taps k..ksize-1 of Weight * frame at t + (k - back) * dilation,
\* where back is the number of taps that lie before the output frame.
TapSum(s, t, b, gate, k, blk, back) ==
    IF k >= blk.ksize THEN 0
    ELSE Weight(b, k, gate) * At(s, t + (k - back) * blk.dilation)
         + TapSum(s, t, b, gate, k + 1, blk, back)

\* ll.CausalConv1d: left padding of (ksize-1)*dilation, so that output frame
\* t reads input frames t-(ksize-1)*dilation .. t only.
CausalTaps(s, t, b, gate, blk) == TapSum(s, t, b, gate, 0, blk, blk.ksize - 1)

\* ll.Conv1d with padding='same': ksize // 2 * dilation on both sides, so
\* that output frame t reads input frames on both sides of t.
SameTaps(s, t, b, gate, blk) == TapSum(s, t, b, gate, 0, blk, blk.ksize \div 2)

Taps(s, t, b, gate, blk) ==
    IF blk.causal THEN CausalTaps(s, t, b, gate, blk)
    ELSE SameTaps(s, t, b, gate, blk)

\* A plain convolution with its activation function.
ConvFrames(s, b, blk) ==
    [t \in 1..Len(s) |-> Clip(Activation(blk.act, Taps(s, t, b, FALSE, blk)))]

\* A highway convolution: the convolution yields 2*cout channels, split in
\* H1 (the gate) and H2; the output is sigmoid(H1)*H2 + (1-sigmoid(H1))*x.
HighwayFrame(h1, h2, v) ==
    IF h1 > 0 THEN Clip(h2)
    ELSE IF h1 < 0 THEN v
    ELSE Clip((Clip(h2) + v) \div 2)

HighwayFrames(s, b, blk) ==
    [t \in 1..Len(s) |->
        HighwayFrame(Taps(s, t, b, TRUE, blk), Taps(s, t, b, FALSE, blk), s[t])]

\* nn.Upsample(scale_factor, mode='nearest'): output frame t (1-based) is
\* input frame ceil(t / scale).
UpsampleFrames(s, blk) ==
    [t \in 1..(Len(s) * blk.scale) |-> s[((t - 1) \div blk.scale) + 1]]

\* mm.ResidualBlock1d: a 'same' convolution of ksize taps plus the input.
ResidualFrames(s, b, blk) ==
    [t \in 1..Len(s) |-> Clip(Relu(SameTaps(s, t, b, FALSE, blk)) + s[t])]

ApplyFrames(s, b, blk) ==
    CASE blk.kind = "conv" -> ConvFrames(s, b, blk)
      [] blk.kind = "highway" -> HighwayFrames(s, b, blk)
      [] blk.kind = "upsample" -> UpsampleFrames(s, blk)
      [] blk.kind = "residual" -> ResidualFrames(s, b, blk)

\* The channel count a block yields for an input of c channels, 0 when the
\* framework raises a shape error.  A convolution needs c = cin.  A highway
\* layer then combines its cout-channel halves with the c-channel input
\* element-wise, which broadcasts when either count is 1.
OutChan(c, blk) ==
    CASE blk.kind = "upsample" -> c
      [] blk.kind \in {"conv", "residual"} -> IF c = blk.cin THEN blk.cout ELSE 0
      [] blk.kind = "highway" ->
            IF c # blk.cin THEN 0
            ELSE IF c = blk.cout THEN c
            ELSE IF c = 1 THEN blk.cout
            ELSE IF blk.cout = 1 THEN c
            ELSE 0

\* ---------------------------------------------------------- block records
Conv1d(cin, cout, ksize, act) ==
    [kind |-> "conv", causal |-> FALSE, cin |-> cin, cout |-> cout,
     ksize |-> ksize, dilation |-> 1, act |-> act, scale |-> 1]

CausalConv1d(cin, cout, ksize, act) ==
    [kind |-> "conv", causal |-> TRUE, cin |-> cin, cout |-> cout,
     ksize |-> ksize, dilation |-> 1, act |-> act, scale |-> 1]

HighwayConv1d(cin, cout, ksize, dilation) ==
    [kind |-> "highway", causal |-> FALSE, cin |-> cin, cout |-> cout,
     ksize |-> ksize, dilation |-> dilation, act |-> "none", scale |-> 1]

CausalHighwayConv1d(cin, cout, ksize, dilation) ==
    [kind |-> "highway", causal |-> TRUE, cin |-> cin, cout |-> cout,
     ksize |-> ksize, dilation |-> dilation, act |-> "none", scale |-> 1]

Upsample(scale) ==
    [kind |-> "upsample", causal |-> FALSE, cin |-> 0, cout |-> 0,
     ksize |-> 1, dilation |-> 1, act |-> "none", scale |-> scale]

ResidualBlock1d(cin, cout, ksize) ==
    [kind |-> "residual", causal |-> FALSE, cin |-> cin, cout |-> cout,
     ksize |-> ksize, dilation |-> 1, act |-> "relu", scale |-> 1]

\* ------------------------------------------------------------ AudioEncoder
\* AudioEncoderBlocks with the highway layers of TextEncoder (padding='same')
\* in place of the causal ones.
AudioEncoderBlocks_same(d_in, d_out, d_hidden) ==
    <<CausalConv1d(d_in, d_hidden, 1, "relu")>>
    \o [i \in 1..2 |-> CausalConv1d(d_hidden, d_hidden, 1, "relu")]
    \o [j \in 1..8 |-> HighwayConv1d(d_hidden, d_hidden, 3, Pow3((j - 1) % 4))]
    \o [i \in 1..2 |-> CausalHighwayConv1d(d_hidden, d_out, 3, 3)]

AudioEncoderBlocks(d_in, d_out, d_hidden) ==
    <<CausalConv1d(d_in, d_hidden, 1, "relu")>>
    \o [i \in 1..2 |-> CausalConv1d(d_hidden, d_hidden, 1, "relu")]
    \o [j \in 1..8 |-> CausalHighwayConv1d(d_hidden, d_hidden, 3, Pow3((j - 1) % 4))]
    \o [i \in 1..2 |-> CausalHighwayConv1d(d_hidden, d_out, 3, 3)]

\* ------------------------------------------------------------- TextEncoder
TextEncoderBlocks(d_in, d_out, d_hidden) ==
    <<Conv1d(d_in, d_hidden, 1, "relu")>>
    \o <<Conv1d(d_hidden, d_hidden, 1, "none")>>
    \o [j \in 1..8 |-> HighwayConv1d(d_hidden, d_hidden, 3, Pow3((j - 1) % 4))]
    \o [i \in 1..2 |-> HighwayConv1d(d_hidden, d_hidden, 3, 1)]
    \o [i \in 1..2 |-> HighwayConv1d(d_hidden, d_hidden, 1, 1)]

\* y.chunk(2, dim=1): the channel counts of the chunks of a tensor of c
\* channels: chunks of ceil(c / 2) channels, the last one smaller, none
\* empty.
Chunk2(c) ==
    LET size == (c + 1) \div 2
    IN  IF c - size > 0 THEN <<size, c - size>> ELSE <<size>>

\* ------------------------------------------------------------ AudioDecoder
\* AudioDecoderBlocks with the two dilation-1 highway layers padded 'same'.
AudioDecoderBlocks_same(d_in, d_out, d_hidden) ==
    <<CausalConv1d(d_in, d_hidden, 1, "relu")>>
    \o [i \in 1..4 |-> CausalHighwayConv1d(d_hidden, d_hidden, 3, Pow3(i - 1))]
    \o [i \in 1..2 |-> HighwayConv1d(d_hidden, d_hidden, 3, 1)]
    \o [i \in 1..3 |-> CausalConv1d(d_hidden, d_hidden, 1, "relu")]
    \o <<CausalConv1d(d_hidden, d_out, 1, "none")>>

AudioDecoderBlocks(d_in, d_out, d_hidden) ==
    <<CausalConv1d(d_in, d_hidden, 1, "relu")>>
    \o [i \in 1..4 |-> CausalHighwayConv1d(d_hidden, d_hidden, 3, Pow3(i - 1))]
    \o [i \in 1..2 |-> CausalHighwayConv1d(d_hidden, d_hidden, 3, 1)]
    \o [i \in 1..3 |-> CausalConv1d(d_hidden, d_hidden, 1, "relu")]
    \o <<CausalConv1d(d_hidden, d_out, 1, "none")>>

\* ----------------------------------------------------------------- PostNet
\* PostNetBlocks without its second nn.Upsample.
PostNetBlocks_oneUpsample(d_in, d_out, d_hidden) ==
    <<Upsample(2),
      ResidualBlock1d(d_in, d_hidden, 5),
      ResidualBlock1d(d_hidden, d_hidden, 5),
      ResidualBlock1d(d_hidden, d_out, 5)>>

\* PostNetBlocks whose last block yields d_hidden channels.
PostNetBlocks_hiddenOut(d_in, d_out, d_hidden) ==
    <<Upsample(2),
      ResidualBlock1d(d_in, d_hidden, 5),
      Upsample(2),
      ResidualBlock1d(d_hidden, d_hidden, 5),
      ResidualBlock1d(d_hidden, d_hidden, 5)>>

PostNetBlocks(d_in, d_out, d_hidden) ==
    <<Upsample(2),
      ResidualBlock1d(d_in, d_hidden, 5),
      Upsample(2),
      ResidualBlock1d(d_hidden, d_hidden, 5),
      ResidualBlock1d(d_hidden, d_out, 5)>>

\* ------------------------------------------------------------------ state
Blocks ==
    CASE net = "TextEncoder" -> TextEncoderBlocks(cfg.d_in, cfg.d_out, cfg.d_hidden)
      [] net = "AudioEncoder" -> AudioEncoderBlocks(cfg.d_in, cfg.d_out, cfg.d_hidden)
      [] net = "AudioDecoder" -> AudioDecoderBlocks(cfg.d_in, cfg.d_out, cfg.d_hidden)
      [] net = "PostNet" -> PostNetBlocks(cfg.d_in, cfg.d_out, cfg.d_hidden)

Frames(vals) == UNION {[1..T -> vals] : T \in 1..MaxT}

Configs ==
    [N : 1..MaxN, d_in : 1..MaxC, d_out : 1..MaxC, d_hidden : 1..MaxHidden,
     alt : BOOLEAN]

\* The state after construction, with the input handed to forward().
InitNet(name, vals, twoRuns) ==
    /\ net = name
    /\ cfg \in Configs
    /\ pc = 1
    /\ status = "running"
    /\ chan = cfg.d_in
    /\ inp \in Frames(vals)
    /\ inp2 \in IF twoRuns THEN {s \in Frames(vals) : Len(s) = Len(inp)} ELSE {inp}
    /\ x = inp
    /\ x2 = inp2
    /\ ret = <<>>
    /\ Q = <<>> /\ K = <<>> /\ V = <<>> /\ A = <<>> /\ R = <<>>

\* One iteration of the loop of forward(): y = self.hc_blocks[i](y).
ApplyBlock ==
    /\ status = "running"
    /\ pc <= Len(Blocks)
    /\ LET blk == Blocks[pc]
           c == OutChan(chan, blk)
       IN  IF c = 0
           THEN /\ status' = "error"
                /\ UNCHANGED <<pc, chan, x, x2>>
           ELSE /\ chan' = c
                /\ x' = ApplyFrames(x, pc, blk)
                /\ x2' = ApplyFrames(x2, pc, blk)
                /\ pc' = pc + 1
                /\ UNCHANGED status
    /\ UNCHANGED <<net, cfg, inp, inp2, ret, attn>>

Shape(s) == <<cfg.N, chan, Len(s)>>

\* AudioEncoder.forward returns Q after the last block.
AudioEncoderReturn ==
    /\ net = "AudioEncoder"
    /\ status = "running"
    /\ pc = Len(Blocks) + 1
    /\ status' = "done"
    /\ ret' = <<Shape(x)>>
    /\ UNCHANGED <<net, cfg, pc, chan, x, x2, inp, inp2, attn>>

\* TextEncoder.forward: K, V = y.chunk(2, dim=1); return K, V.  Unpacking
\* anything but two chunks raises.
TextEncoderReturn ==
    /\ net = "TextEncoder"
    /\ status = "running"
    /\ pc = Len(Blocks) + 1
    /\ LET parts == Chunk2(chan)
       IN  IF Len(parts) = 2
           THEN /\ status' = "done"
                /\ ret' = [i \in 1..2 |-> <<cfg.N, parts[i], Len(x)>>]
           ELSE /\ status' = "error"
                /\ UNCHANGED ret
    /\ UNCHANGED <<net, cfg, pc, chan, x, x2, inp, inp2, attn>>

\* torch.sigmoid(Y), element-wise.
SigmoidFrames(s) == [t \in 1..Len(s) |-> Sigmoid(s[t])]

\* AudioDecoder.forward and PostNet.forward return torch.sigmoid of the
\* last block's output.
SigmoidReturn ==
    /\ net \in {"AudioDecoder", "PostNet"}
    /\ status = "running"
    /\ pc = Len(Blocks) + 1
    /\ status' = "done"
    /\ x' = SigmoidFrames(x)
    /\ x2' = SigmoidFrames(x2)
    /\ ret' = <<Shape(x)>>
    /\ UNCHANGED <<net, cfg, pc, chan, inp, inp2, attn>>

InitTextEncoder == InitNet("TextEncoder", {-1, 0, 1}, FALSE)

InitAudioEncoder == InitNet("AudioEncoder", {0, 1}, TRUE)

InitAudioDecoder == InitNet("AudioDecoder", {-1, 1}, TRUE)

InitPostNet == InitNet("PostNet", {-1, 0, 1}, FALSE)

NextTextEncoder == ApplyBlock \/ TextEncoderReturn

NextAudioEncoder == ApplyBlock \/ AudioEncoderReturn

NextAudioDecoder == ApplyBlock \/ SigmoidReturn

NextPostNet == ApplyBlock \/ SigmoidReturn

SpecTextEncoder == InitTextEncoder /\ [][NextTextEncoder]_vars

SpecAudioEncoder == InitAudioEncoder /\ [][NextAudioEncoder]_vars

SpecAudioDecoder == InitAudioDecoder /\ [][NextAudioDecoder]_vars

SpecPostNet == InitPostNet /\ [][NextPostNet]_vars

\* ----------------------------------------------------- DotProductAttention
\* A tensor (N, C, T) is a sequence of N batch items, each a sequence of C
\* rows of T entries.
TensorShape(X) == <<Len(X), Len(X[1]), Len(X[1][1])>>

Transpose12(X) ==
    [n \in 1..Len(X) |->
        [t \in 1..Len(X[1][1]) |-> [c \in 1..Len(X[1]) |-> X[n][c][t]]]]

RECURSIVE SumSeq(_)
SumSeq(s) == IF s = <<>> THEN 0 ELSE Head(s) + SumSeq(Tail(s))

RECURSIVE ProdSeq(_)
ProdSeq(s) == IF s = <<>> THEN 1 ELSE Head(s) * ProdSeq(Tail(s))

\* torch.bmm(X, Y) is defined for X (N, p, q) and Y (N, q, r).
BmmDefined(X, Y) == Len(X) = Len(Y) /\ Len(X[1][1]) = Len(Y[1])

\* torch.bmm on integer tensors: (N, p, q) x (N, q, r) -> (N, p, r).
Bmm(X, Y) ==
    [n \in 1..Len(X) |->
        [i \in 1..Len(X[1]) |->
            [j \in 1..Len(Y[1][1]) |->
                SumSeq([c \in 1..Len(Y[1]) |-> X[n][i][c] * Y[n][c][j]])]]]

\* Fixed-point 1.0.
One == 10 * 10 * 10

RECURSIVE Newton(_, _)
\* Newton's iteration for the integer square root of v, from a guess r
\* that is not below it.
Newton(v, r) ==
    LET next == (r + v \div r) \div 2
    IN  IF next >= r THEN r ELSE Newton(v, next)

\* sqrt(d) in fixed point: the largest r with r*r <= d * One * One.
SqrtFix(d) == Newton(d * One * One, d * One)

RECURSIVE ExpTerms(_, _, _)
\* The Taylor series of exp at v >= 0 (fixed point), from term k on.
ExpTerms(v, k, term) ==
    IF k > 16 \/ term = 0 THEN 0
    ELSE term + ExpTerms(v, k + 1, (term * v) \div (k * One))

\* exp(v), v in fixed point, in fixed point.
ExpFix(v) ==
    IF v >= 0 THEN ExpTerms(v, 1, One)
    ELSE (One * One) \div ExpTerms(-v, 1, One)

\* exp(s / sqrt(d_k)) for an integer dot product s.
ExpScore(s, d_k) ==
    LET mag == ((IF s < 0 THEN -s ELSE s) * One * One) \div SqrtFix(d_k)
    IN  ExpFix(IF s < 0 THEN -mag ELSE mag)

\* torch.softmax(S / sqrt(d_k), dim) of an integer tensor S (N, p, q): every
\* weight is the exact fraction <<numerator, denominator>> of its
\* exponential over the sum of the exponentials along dim (1 or 2).
Softmax(S, d_k, dim) ==
    LET E == [n \in 1..Len(S) |->
                [i \in 1..Len(S[1]) |->
                    [j \in 1..Len(S[1][1]) |-> ExpScore(S[n][i][j], d_k)]]]
    IN  [n \in 1..Len(S) |->
            [i \in 1..Len(S[1]) |->
                [j \in 1..Len(S[1][1]) |->
                    <<E[n][i][j],
                      IF dim = 1
                      THEN SumSeq([i2 \in 1..Len(S[1]) |-> E[n][i2][j]])
                      ELSE SumSeq([j2 \in 1..Len(S[1][1]) |-> E[n][i][j2]])>>]]]

\* Sum over i of row[i] * col[i] for integers row[i] and fractions col[i],
\* as one fraction: over the common denominator when there is one.
DotFrac(row, col) ==
    IF \A i \in 1..Len(col) : col[i][2] = col[1][2]
    THEN <<SumSeq([i \in 1..Len(col) |-> row[i] * col[i][1]]), col[1][2]>>
    ELSE <<SumSeq([i \in 1..Len(col) |->
                row[i] * col[i][1]
                * ProdSeq([i2 \in 1..Len(col) |-> IF i2 = i THEN 1 ELSE col[i2][2]])]),
           ProdSeq([i \in 1..Len(col) |-> col[i][2]])>>

\* torch.bmm(X, W) for an integer tensor X (N, p, q) and a tensor of
\* fractions W (N, q, r).
BmmFrac(X, W) ==
    [n \in 1..Len(X) |->
        [i \in 1..Len(X[1]) |->
            [j \in 1..Len(W[1][1]) |->
                DotFrac(X[n][i], [c \in 1..Len(W[1]) |-> W[n][c][j]])]]]

\* The weights of the three ll.CustomConv1d(d_hidden, d_hidden, 1) layers
\* (which = 0, 1, 2 for linear_q, linear_k, linear_v): learned parameters.
LinearWeight(which, o, c) ==
    IF o = c THEN 1 ELSE IF (o + c + which) % 3 = 0 THEN -1 ELSE 0

\* torch.tanh(linear(X)): a convolution of kernel size 1 mixes the channels
\* of each frame; tanh keeps the sign and bounds the value.
TanhLinear(which, X) ==
    [n \in 1..Len(X) |->
        [o \in 1..Len(X[1]) |->
            [t \in 1..Len(X[1][1]) |->
                Clip(SumSeq([c \in 1..Len(X[1]) |->
                    LinearWeight(which, o, c) * X[n][c][t]]))]]]

\* torch.bmm(K.transpose(1, 2), Q) with Q and K exchanged.
Scores_swapped(k, q) ==
    IF BmmDefined(Transpose12(q), k) THEN Bmm(Transpose12(q), k) ELSE <<>>

\* torch.bmm(K.transpose(1, 2), Q): (N, Tx, Cx) x (N, Cx, Ty) -> (N, Tx, Ty);
\* <<>> when bmm raises.
Scores(k, q) ==
    IF BmmDefined(Transpose12(k), q) THEN Bmm(Transpose12(k), q) ELSE <<>>

\* The softmax of line 83 taken over dim 2 (the audio axis).
Alignment_dim2(k, q, d_k) == Softmax(Scores(k, q), d_k, 2)

\* A = torch.softmax(bmm(K.transpose(1, 2), Q) / np.sqrt(self.d_k), dim=1).
Alignment(k, q, d_k) == Softmax(Scores(k, q), d_k, 1)

\* An input tensor (N, C, T) with entries in -1 .. 1.
Pattern(seed, N, C, T) ==
    [n \in 1..N |-> [c \in 1..C |-> [t \in 1..T |->
        ((seed * (c * c + 1) + n + c * t + t * t) % 3) - 1]]]

InitAttention ==
    /\ net = "DotProductAttention"
    /\ cfg \in [N : 1..MaxN, d_hidden : 1..MaxHidden, Tx : 1..MaxT, Ty : 1..MaxT]
    /\ pc = 1
    /\ status = "running"
    /\ \E sq, sk, sv \in 0..MaxSeed :
          /\ Q = Pattern(sq, cfg.N, cfg.d_hidden, cfg.Ty)
          /\ K = Pattern(sk + 1, cfg.N, cfg.d_hidden, cfg.Tx)
          /\ V = Pattern(sv + 2, cfg.N, cfg.d_hidden, cfg.Tx)
    /\ A = <<>> /\ R = <<>>
    /\ chan = cfg.d_hidden
    /\ x = <<>> /\ x2 = <<>> /\ inp = <<>> /\ inp2 = <<>>
    /\ ret = <<>>

AttnStep(n) ==
    /\ net = "DotProductAttention"
    /\ status = "running"
    /\ pc = n
    /\ pc' = n + 1
    /\ UNCHANGED <<net, cfg, chan, x, x2, inp, inp2>>

\* Q = torch.tanh(self.linear_q(Q))
AttnLinearQ ==
    /\ AttnStep(1)
    /\ Q' = TanhLinear(0, Q)
    /\ UNCHANGED <<status, ret, K, V, A, R>>

\* K = torch.tanh(self.linear_k(K))
AttnLinearK ==
    /\ AttnStep(2)
    /\ K' = TanhLinear(1, K)
    /\ UNCHANGED <<status, ret, Q, V, A, R>>

\* V = torch.tanh(self.linear_v(V))
AttnLinearV ==
    /\ AttnStep(3)
    /\ V' = TanhLinear(2, V)
    /\ UNCHANGED <<status, ret, Q, K, A, R>>

\* A = torch.softmax(torch.bmm(K.transpose(1, 2), Q) / np.sqrt(d_k), dim=1)
AttnSoftmax ==
    /\ AttnStep(4)
    /\ IF Scores(K, Q) = <<>>
       THEN status' = "error" /\ UNCHANGED A
       ELSE A' = Alignment(K, Q, cfg.d_hidden) /\ UNCHANGED status
    /\ UNCHANGED <<ret, Q, K, V, R>>

\* R = torch.bmm(V, A)
AttnBmm ==
    /\ AttnStep(5)
    /\ IF BmmDefined(V, A)
       THEN R' = BmmFrac(V, A) /\ UNCHANGED status
       ELSE status' = "error" /\ UNCHANGED R
    /\ UNCHANGED <<ret, Q, K, V, A>>

\* return R, A
AttnReturn ==
    /\ AttnStep(6)
    /\ status' = "done"
    /\ ret' = <<TensorShape(R), TensorShape(A)>>
    /\ UNCHANGED <<Q, K, V, A, R>>

NextAttention ==
    AttnLinearQ \/ AttnLinearK \/ AttnLinearV \/ AttnSoftmax \/ AttnBmm \/ AttnReturn

SpecAttention == InitAttention /\ [][NextAttention]_vars

\* Two inputs agree on every time index <= t.
Agree(a, b, t) == \A u \in 1..t : u <= Len(a) /\ u <= Len(b) /\ a[u] = b[u]

\* The two runs' current tensors agree up to every index up to which their
\* inputs agree.
CausalSoFar == \A t \in 1..Len(inp) : Agree(inp, inp2, t) => Agree(x, x2, t)

\* C1: AudioEncoder.forward is causal: two inputs of the same shape that
\* agree on every time index <= t give tensors that agree on every time
\* index <= t, for every t, after every block of hc_blocks and at return.
C1_AudioEncoderCausal ==
    net = "AudioEncoder" => Len(x) = Len(x2) /\ CausalSoFar

\* Two inputs that agree on a proper prefix and differ after it went through
\* every block, and the outputs differ (after the prefix only).
C1_Witness ==
    /\ net = "AudioEncoder"
    /\ status = "done"
    /\ \E t \in 1..(Len(inp) - 1) : Agree(inp, inp2, t) /\ inp[t + 1] # inp2[t + 1]
    /\ x # x2

\* C6: for every d_in, d_out, d_hidden, AudioEncoder.forward maps
\* (N, d_in, T) to (N, d_out, T): no block raises, every block receives
\* the channel count it was constructed with, which is the channel count
\* the block before it was constructed to yield, and the time length is
\* unchanged.
C6_AudioEncoderWidths ==
    net = "AudioEncoder" =>
        /\ status # "error"
        /\ pc <= Len(Blocks) => chan = Blocks[pc].cin
        /\ pc > 1 => chan = Blocks[pc - 1].cout
        /\ Len(x) = Len(inp)
        /\ status = "done" => ret = <<<<cfg.N, cfg.d_out, Len(inp)>>>>

\* C2: AudioDecoder.forward is causal: two inputs of the same shape that
\* agree on every time index <= t give outputs that agree on every time
\* index <= t, for every t; the final sigmoid, applied frame by frame,
\* keeps the time length and mixes no time steps.
C2_AudioDecoderCausal ==
    net = "AudioDecoder" =>
        /\ CausalSoFar
        /\ Len(x) = Len(inp) /\ Len(x2) = Len(inp2)
        /\ status = "done" => \A t \in 1..Len(x) : x[t] \in {Sigmoid(v) : v \in -1..1}

\* Two inputs that agree on a proper prefix and differ after it went through
\* every block and the sigmoid, and the outputs differ.
C2_Witness ==
    /\ net = "AudioDecoder"
    /\ status = "done"
    /\ \E t \in 1..(Len(inp) - 1) : Agree(inp, inp2, t) /\ inp[t + 1] # inp2[t + 1]
    /\ x # x2

\* C5: TextEncoder.forward returns two tensors K and V of one shape, with
\* the batch size and the time length of the input and the same channel
\* count as each other.
C5_TextEncoderKV ==
    net = "TextEncoder" =>
        /\ status # "error"
        /\ status = "done" =>
              /\ Len(ret) = 2
              /\ ret[1] = ret[2]
              /\ ret[1][1] = cfg.N
              /\ ret[1][3] = Len(inp)

\* The time length after each entry of PostNet.nets, for an input of
\* length T: 2T, 2T, 4T, 4T, 4T.
PostNetLength(T, done) ==
    IF done = 0 THEN T ELSE IF done <= 2 THEN 2 * T ELSE 4 * T

C3_AlignmentNormalised ==
    (net = "DotProductAttention" /\ A # <<>>) =>
        /\ \A n \in 1..cfg.N : \A j \in 1..cfg.Ty :
              /\ \A i \in 1..cfg.Tx :
                    /\ A[n][i][j][1] >= 0
                    /\ A[n][i][j][2] > 0
                    /\ A[n][i][j][2] = A[n][1][j][2]
              /\ SumSeq([i \in 1..cfg.Tx |-> A[n][i][j][1]]) = A[n][1][j][2]
        /\ cfg.Tx = 1 =>
              /\ \A n \in 1..cfg.N : \A j \in 1..cfg.Ty :
                    A[n][1][j][1] = A[n][1][j][2]
              /\ R # <<>> =>
                    \A n \in 1..cfg.N : \A c \in 1..cfg.d_hidden : \A j \in 1..cfg.Ty :
                        R[n][c][j][1] = V[n][c][1] * R[n][c][j][2]

\* An alignment over several text positions and several audio frames whose
\* weights are not all equal.
C3_Witness ==
    /\ net = "DotProductAttention"
    /\ status = "done"
    /\ cfg.Tx > 1 /\ cfg.Ty > 1
    /\ \E i \in 1..cfg.Tx : \E j \in 1..cfg.Ty : A[1][i][j] # A[1][1][1]

\* C4: for K and V of shape (N, Cx, Tx) and Q of shape (N, Cx, Ty) with
\* Cx = d_hidden, forward raises nothing and returns R of shape
\* (N, Cx, Ty) and A of shape (N, Tx, Ty), for every Tx, Ty >= 1.
C4_AttentionShapes ==
    net = "DotProductAttention" =>
        /\ status # "error"
        /\ status = "done" =>
              ret = << <<cfg.N, cfg.d_hidden, cfg.Ty>>, <<cfg.N, cfg.Tx, cfg.Ty>> >>

\* forward returned for a text and an audio of different lengths.
C4_Witness ==
    /\ net = "DotProductAttention"
    /\ status = "done"
    /\ cfg.Tx # cfg.Ty
    /\ cfg.d_hidden > 1

====
